---- MODULE Spec2Model ----
(***************************************************************************)
(* Quadtree image compression: tree.py (QuadtreeNode, QuadTree),           *)
(* work_with_images.py (create_image, compression_start) and main.py       *)
(* (check_fields, parse_args).                                             *)
(*                                                                         *)
(* Coordinates.  split() cuts a region at left + (right - left) / 2 with   *)
(* real division, so borders are dyadic rationals.  Every coordinate is    *)
(* stored multiplied by Scale = 2^(MAX_DEPTH+1); a node of depth d has     *)
(* borders that are multiples of Scale / 2^d, hence every midpoint the     *)
(* program computes is an integer here and no precision is lost.           *)
(*                                                                         *)
(* Error.  node.error is stored in units of 1/ErrorUnit; the per-channel   *)
(* standard deviation is floor(100 * sd).  ErrorMargin bounds what the     *)
(* flooring can lose, and ThresholdExact states that no node's comparison  *)
(* with ERROR_THRESHOLD falls inside that margin.                          *)
(*                                                                         *)
(* None is modelled by the empty tuple.                                    *)
(***************************************************************************)
EXTENDS Integers, Sequences, FiniteSets, TLC

MAX_DEPTH == 8
ERROR_THRESHOLD == 13

MaxWidth == 3
MaxHeight == 2
MaxPixels == 4

None == <<>>
Scale == 2 ^ (MAX_DEPTH + 1)
ErrorUnit == 1000000

(* Pixel values.  Two pixels Black and Dim, or Dim and Bright, have an error
   of about 12 (below the threshold); Black and Bright have about 24. *)
Black == <<0, 0, 0>>
Dim == <<25, 24, 22>>
Bright == <<50, 48, 45>>
Palette == {Black, Dim, Bright}
Levels == {c[k] : c \in Palette, k \in 1..3}

VARIABLES image, pc, exc, ctor_calls, width, height, nodes, thr, max_depth,
          query, builds, first_tree, cli

vars == <<image, pc, exc, ctor_calls, width, height, nodes, thr, max_depth,
          query, builds, first_tree, cli>>

(* ------------------------------------------------------------------ *)
(* Images                                                              *)
(* ------------------------------------------------------------------ *)
Shapes == {s \in (0..MaxWidth) \X (0..MaxHeight) : s[1] * s[2] <= MaxPixels}
Cells(w, h) == (0..(w - 1)) \X (0..(h - 1))
Images == UNION {[w : {s[1]}, h : {s[2]}, px : [Cells(s[1], s[2]) -> Palette]] :
                 s \in Shapes}

RECURSIVE SumOver(_, _)
SumOver(S, f) ==
    IF S = {} THEN 0
    ELSE LET x == CHOOSE y \in S : TRUE IN f[x] + SumOver(S \ {x}, f)

Min(S) == CHOOSE x \in S : \A y \in S : x <= y
Max(S) == CHOOSE x \in S : \A y \in S : x >= y

(* Image.getbbox(): the bounding box of the non-zero pixels, None if there
   are none. *)
GetBBox(img) ==
    LET nz == {c \in Cells(img.w, img.h) : img.px[c] # Black}
    IN IF nz = {} THEN None
       ELSE <<Min({c[1] : c \in nz}) * Scale, Min({c[2] : c \in nz}) * Scale,
              (Max({c[1] : c \in nz}) + 1) * Scale,
              (Max({c[2] : c \in nz}) + 1) * Scale>>

(* Python's round(): to the nearest integer, a tie to the even one. *)
PyRound(v) ==
    LET q == v \div Scale
        r == v % Scale
    IN IF 2 * r < Scale THEN q
       ELSE IF 2 * r > Scale THEN q + 1
       ELSE IF q % 2 = 0 THEN q ELSE q + 1

(* Image.crop(box): the pixels of the box with its borders rounded. *)
Crop(img, box) ==
    {c \in Cells(img.w, img.h) :
        /\ PyRound(box[1]) <= c[1] /\ c[1] < PyRound(box[3])
        /\ PyRound(box[2]) <= c[2] /\ c[2] < PyRound(box[4])}

(* Image.histogram(): for each of the three bands, the number of pixels of
   each intensity (the intensities no palette colour has count zero). *)
Histogram(img, cells) ==
    [k \in 1..3 |-> [i \in Levels |-> Cardinality({c \in cells : img.px[c][k] = i})]]

(* ------------------------------------------------------------------ *)
(* Colour statistics                                                   *)
(* ------------------------------------------------------------------ *)
RECURSIVE ISqrtIn(_, _, _)
ISqrtIn(x, lo, hi) ==
    IF lo >= hi THEN lo
    ELSE LET mid == (lo + hi + 1) \div 2
         IN IF mid * mid <= x THEN ISqrtIn(x, mid, hi) ELSE ISqrtIn(x, lo, mid - 1)

ISqrt(x) == ISqrtIn(x, 0, 25600)

(* weighted_average(hist): <<value numerator, value denominator,
   floor(100 * error)>>. *)
weighted_average(hist) ==
    LET total == SumOver(Levels, hist)
    IN IF total > 0
       THEN LET s == SumOver(Levels, [i \in Levels |-> i * hist[i]])
                dev == SumOver(Levels, [i \in Levels |->
                                   hist[i] * (s - i * total) * (s - i * total)])
                den == total * total * total
                var1e4 == (dev \div den) * 10000 + ((dev % den) * 10000) \div den
            IN <<s, total, ISqrt(var1e4)>>
       ELSE <<0, 1, 0>>

(* color_from_histogram(hist): the truncated average colour and the error. *)
color_from_histogram(hist) ==
    LET red == weighted_average(hist[1])
        green == weighted_average(hist[2])
        blue == weighted_average(hist[3])
    IN [color |-> <<red[1] \div red[2], green[1] \div green[2], blue[1] \div blue[2]>>,
        error |-> 2989 * red[3] + 5870 * green[3] + 1140 * blue[3]]

ErrorMargin == 2989 + 5870 + 1140

(* ------------------------------------------------------------------ *)
(* QuadtreeNode                                                        *)
(* ------------------------------------------------------------------ *)
(* The midpoint cut to a whole pixel (floor division in place of /). *)
CenterPointTruncated(box) ==
    <<((box[1] + (box[3] - box[1]) \div 2) \div Scale) * Scale,
      ((box[2] + (box[4] - box[2]) \div 2) \div Scale) * Scale>>

(* lines 90-93: left + (right - left) / 2, top + (bottom - top) / 2. *)
CenterPoint(box) ==
    <<box[1] + (box[3] - box[1]) \div 2, box[2] + (box[4] - box[2]) \div 2>>

QuadtreeNode(img, box, depth) ==
    LET stat == color_from_histogram(Histogram(img, Crop(img, box)))
    IN [border_box |-> box, depth |-> depth, childrens |-> None,
        is_leaf |-> FALSE, node_center_point |-> CenterPoint(box),
        average_color |-> stat.color, error |-> stat.error]

(* split(): the four children, top left, top right, bottom left, bottom
   right. *)
Split(img, n) ==
    LET left == n.border_box[1]
        top == n.border_box[2]
        right == n.border_box[3]
        bottom == n.border_box[4]
        cx == n.node_center_point[1]
        cy == n.node_center_point[2]
    IN <<QuadtreeNode(img, <<left, top, cx, cy>>, n.depth + 1),
         QuadtreeNode(img, <<cx, top, right, cy>>, n.depth + 1),
         QuadtreeNode(img, <<left, cy, cx, bottom>>, n.depth + 1),
         QuadtreeNode(img, <<cx, cy, right, bottom>>, n.depth + 1)>>

Child(p, i) == Append(p, i)
Root == <<>>
NoNodes == [p \in {} |-> None]
NoExc == [type |-> "none", at |-> "none"]
NoQuery == [op |-> "none", state |-> "none", depth |-> 0, leaf_nodes |-> <<>>]
NoCli == [state |-> "none", level |-> 0]

(* ------------------------------------------------------------------ *)
(* QuadTree                                                            *)
(* ------------------------------------------------------------------ *)
Init ==
    /\ image \in Images
    /\ pc = "start"
    /\ exc = NoExc
    /\ ctor_calls = 0
    /\ width = 0
    /\ height = 0
    /\ nodes = NoNodes
    /\ thr = NoNodes
    /\ max_depth = 0
    /\ query = NoQuery
    /\ builds = 0
    /\ first_tree = NoNodes
    /\ cli = NoCli

(* QuadTree.__init__ up to the call of __build_tree.  With getbbox() None
   the root's constructor raises TypeError at its first subscript. *)
QuadTreeInit ==
    /\ pc = "start"
    /\ width' = image.w
    /\ height' = image.h
    /\ ctor_calls' = 1
    /\ IF GetBBox(image) = None
       THEN /\ pc' = "raised"
            /\ exc' = [type |-> "TypeError", at |-> "QuadtreeNode.__init__"]
            /\ UNCHANGED <<nodes, thr, max_depth>>
       ELSE /\ pc' = "building"
            /\ nodes' = (Root :> QuadtreeNode(image, GetBBox(image), 0))
            /\ thr' = (Root :> "build")
            /\ max_depth' = 0
            /\ exc' = NoExc
    /\ UNCHANGED <<image, query, builds, first_tree, cli>>

(* The tree's running max_depth read in place of the constant MAX_DEPTH. *)
StopConditionSharedDepth(n) ==
    (n.depth > max_depth) \/ (n.error <= ERROR_THRESHOLD * ErrorUnit)

(* The threshold dropped: only a region of one colour stops. *)
StopConditionNoThreshold(n) ==
    (n.depth >= MAX_DEPTH) \/ (n.error <= 0)

(* line 223 *)
StopCondition(n) ==
    (n.depth >= MAX_DEPTH) \/ (n.error <= ERROR_THRESHOLD * ErrorUnit)

Running(p) == p \in DOMAIN thr /\ thr[p] = "build"

(* __build_tree, lines 223-227: the stop condition holds; the comparison with
   the shared maximum depth is one step, the assignment to it the next. *)
BuildStop(p) ==
    /\ Running(p)
    /\ StopCondition(nodes[p])
    /\ IF nodes[p].depth > max_depth
       THEN /\ thr' = [thr EXCEPT ![p] = "store"]
            /\ UNCHANGED nodes
       ELSE /\ thr' = [thr EXCEPT ![p] = "done"]
            /\ nodes' = [nodes EXCEPT ![p].is_leaf = TRUE]
    /\ UNCHANGED <<image, pc, exc, ctor_calls, width, height, max_depth, query,
                   builds, first_tree, cli>>

StoreMaxDepth(p) ==
    /\ p \in DOMAIN thr
    /\ thr[p] = "store"
    /\ max_depth' = nodes[p].depth
    /\ nodes' = [nodes EXCEPT ![p].is_leaf = TRUE]
    /\ thr' = [thr EXCEPT ![p] = "done"]
    /\ UNCHANGED <<image, pc, exc, ctor_calls, width, height, query, builds,
                   first_tree, cli>>

(* __build_tree, lines 229-237: split and start one thread per child. *)
BuildSplit(p) ==
    /\ Running(p)
    /\ ~StopCondition(nodes[p])
    /\ LET kids == Split(image, nodes[p])
       IN /\ nodes' = [q \in DOMAIN nodes \cup {Child(p, i) : i \in 1..4} |->
                         IF q = p THEN [nodes[p] EXCEPT
                                          !.childrens = [i \in 1..4 |-> Child(p, i)]]
                         ELSE IF q \in DOMAIN nodes THEN nodes[q]
                         ELSE kids[q[Len(q)]]]
          /\ thr' = [q \in DOMAIN thr \cup {Child(p, i) : i \in 1..4} |->
                       IF q = p THEN "join"
                       ELSE IF q \in DOMAIN thr THEN thr[q] ELSE "build"]
    /\ ctor_calls' = ctor_calls + 4
    /\ UNCHANGED <<image, pc, exc, width, height, max_depth, query, builds,
                   first_tree, cli>>

(* Only the thread started last is joined. *)
JoinedLastOnly(p) == thr[Child(p, 4)] = "done"

(* lines 239-240: every started thread is joined. *)
Joined(p) == \A i \in 1..4 : thr[Child(p, i)] = "done"

BuildJoin(p) ==
    /\ p \in DOMAIN thr
    /\ thr[p] = "join"
    /\ Joined(p)
    /\ thr' = [thr EXCEPT ![p] = "done"]
    /\ UNCHANGED <<image, pc, exc, ctor_calls, width, height, nodes, max_depth,
                   query, builds, first_tree, cli>>

(* QuadTree.__init__ returns when the root's __build_tree has returned. *)
QuadTreeReturn ==
    /\ pc = "building"
    /\ thr[Root] = "done"
    /\ pc' = "built"
    /\ builds' = builds + 1
    /\ UNCHANGED <<image, exc, ctor_calls, width, height, nodes, thr, max_depth,
                   query, first_tree, cli>>

(* The published attributes the claims compare: region, colour, leaf flag. *)
TreeView(t) ==
    [p \in DOMAIN t |-> <<t[p].border_box, t[p].average_color, t[p].is_leaf>>]

(* The same image is built a second time: QuadTree(image) on a fresh object. *)
Rebuild ==
    /\ pc = "built"
    /\ builds = 1
    /\ first_tree' = TreeView(nodes)
    /\ pc' = "start"
    /\ ctor_calls' = 0
    /\ width' = 0
    /\ height' = 0
    /\ nodes' = NoNodes
    /\ thr' = NoNodes
    /\ max_depth' = 0
    /\ query' = NoQuery
    /\ UNCHANGED <<image, exc, builds, cli>>

(* ------------------------------------------------------------------ *)
(* get_leaf_nodes                                                      *)
(* ------------------------------------------------------------------ *)
QueryDepths == (0 - 1)..(MAX_DEPTH + 1)

(* >= in place of >. *)
DepthExceedsOrEqual(depth) == depth >= max_depth

(* line 245 *)
DepthExceeds(depth) == depth > max_depth

RECURSIVE get_leaf_nodes_recursion(_, _)
get_leaf_nodes_recursion(p, depth) ==
    IF nodes[p].is_leaf \/ nodes[p].depth = depth THEN <<p>>
    ELSE IF nodes[p].childrens # None
         THEN get_leaf_nodes_recursion(nodes[p].childrens[1], depth)
              \o get_leaf_nodes_recursion(nodes[p].childrens[2], depth)
              \o get_leaf_nodes_recursion(nodes[p].childrens[3], depth)
              \o get_leaf_nodes_recursion(nodes[p].childrens[4], depth)
         ELSE <<>>

GetLeafNodes(depth) ==
    /\ pc = "built"
    /\ query' = IF DepthExceeds(depth)
                THEN [op |-> "get_leaf_nodes", state |-> "raised", depth |-> depth,
                      leaf_nodes |-> <<>>]
                ELSE [op |-> "get_leaf_nodes", state |-> "returned", depth |-> depth,
                      leaf_nodes |-> get_leaf_nodes_recursion(Root, depth)]
    /\ UNCHANGED <<image, pc, exc, ctor_calls, width, height, nodes, thr,
                   max_depth, builds, first_tree, cli>>

(* compression_start, lines 31-32, on the tree built at line 26: create_image
   draws every node get_leaf_nodes(level) returns, and the result is saved;
   the ValueError of get_leaf_nodes is not caught. *)
RenderLevels == 1..MAX_DEPTH

CreateImage(level) ==
    /\ pc = "built"
    /\ query' = IF DepthExceeds(level)
                THEN [op |-> "create_image", state |-> "raised", depth |-> level,
                      leaf_nodes |-> <<>>]
                ELSE [op |-> "create_image", state |-> "saved", depth |-> level,
                      leaf_nodes |-> get_leaf_nodes_recursion(Root, level)]
    /\ UNCHANGED <<image, pc, exc, ctor_calls, width, height, nodes, thr,
                   max_depth, builds, first_tree, cli>>

(* ------------------------------------------------------------------ *)
(* main.py                                                             *)
(* ------------------------------------------------------------------ *)
Files == [exists : BOOLEAN, suffix : {"jpg", "png", "peg", "txt"}]
CliLevels == 0..(MAX_DEPTH + 1)

check_fields(file, level) ==
    /\ file.exists
    /\ file.suffix \in {"jpg", "png", "jpeg"}
    /\ level \in 1..(9 - 1)

(* The call at main.py:49 and the signature at work_with_images.py:24. *)
CompressionStartArguments == <<"file", "level", "borders", "gif">>
CompressionStartParameters == <<"file", "level", "borders">>

ParseArgs(file, level) ==
    /\ pc = "start"
    /\ builds = 0
    /\ cli.state = "none"
    /\ IF check_fields(file, level)
       THEN IF Len(CompressionStartArguments) # Len(CompressionStartParameters)
            THEN /\ cli' = [state |-> "TypeError", level |-> level]
                 /\ pc' = "exited"
            ELSE /\ cli' = [state |-> "started", level |-> level]
                 /\ pc' = "start"
       ELSE /\ cli' = [state |-> "rejected", level |-> level]
            /\ pc' = "exited"
    /\ UNCHANGED <<image, exc, ctor_calls, width, height, nodes, thr, max_depth,
                   query, builds, first_tree>>

Next ==
    \/ QuadTreeInit
    \/ \E p \in DOMAIN thr : BuildStop(p)
    \/ \E p \in DOMAIN thr : StoreMaxDepth(p)
    \/ \E p \in DOMAIN thr : BuildSplit(p)
    \/ \E p \in DOMAIN thr : BuildJoin(p)
    \/ QuadTreeReturn
    \/ Rebuild
    \/ \E depth \in QueryDepths : GetLeafNodes(depth)
    \/ \E level \in RenderLevels : CreateImage(level)
    \/ \E file \in Files, level \in CliLevels : ParseArgs(file, level)

Spec == Init /\ [][Next]_vars

(* ------------------------------------------------------------------ *)
(* Regions                                                             *)
(* ------------------------------------------------------------------ *)
Area(b) == (b[3] - b[1]) * (b[4] - b[2])
NonDegenerate(b) == b[1] < b[3] /\ b[2] < b[4]
Inside(b, whole) ==
    whole[1] <= b[1] /\ b[3] <= whole[3] /\ whole[2] <= b[2] /\ b[4] <= whole[4]
Overlap(a, b) ==
    LET l == IF a[1] > b[1] THEN a[1] ELSE b[1]
        t == IF a[2] > b[2] THEN a[2] ELSE b[2]
        r == IF a[3] < b[3] THEN a[3] ELSE b[3]
        u == IF a[4] < b[4] THEN a[4] ELSE b[4]
    IN l < r /\ t < u

(* The regions of the nodes ps lie in whole, no two share positive area and
   their areas add up to whole's: they partition it. *)
Tiles(ps, whole) ==
    /\ \A p \in ps : Inside(nodes[p].border_box, whole)
    /\ \A p, q \in ps : p # q => ~Overlap(nodes[p].border_box, nodes[q].border_box)
    /\ SumOver(ps, [p \in ps |-> Area(nodes[p].border_box)]) = Area(whole)

Range(seq) == {seq[i] : i \in 1..Len(seq)}
Leaves == {p \in DOMAIN nodes : nodes[p].is_leaf}
Internal == {p \in DOMAIN nodes : nodes[p].childrens # None}
StopsAt(n) == n.depth >= MAX_DEPTH \/ n.error <= ERROR_THRESHOLD * ErrorUnit

(* The integer error of every node is on the same side of the threshold as
   the real-valued error the program computes. *)
ThresholdExact ==
    \A p \in DOMAIN nodes :
        nodes[p].error <= ERROR_THRESHOLD * ErrorUnit
            => nodes[p].error + ErrorMargin <= ERROR_THRESHOLD * ErrorUnit

(* ------------------------------------------------------------------ *)
(* Claims                                                              *)
(* ------------------------------------------------------------------ *)

(* C1: when construction has returned, the recorded maximum depth is the
   depth of the deepest node marked leaf, under every interleaving of the
   child builds. *)
MaxDepthIsDeepestLeaf ==
    pc = "built" => max_depth = Max({nodes[p].depth : p \in Leaves})

(* C2: for a built tree and a depth between 0 and the recorded maximum, the
   regions get_leaf_nodes returns do not overlap and their union is the
   rectangle (0, 0, width, height) of the image. *)
LeafRegionsTileImage ==
    (pc = "built" /\ query.op = "get_leaf_nodes" /\ query.state = "returned"
        /\ query.depth >= 0)
    => /\ Len(query.leaf_nodes) = Cardinality(Range(query.leaf_nodes))
       /\ Tiles(Range(query.leaf_nodes), <<0, 0, width * Scale, height * Scale>>)

(* C3: get_leaf_nodes(max_depth) returns exactly the nodes marked leaf and
   the unmarked nodes of depth max_depth. *)
LeafExtractionComplete ==
    (pc = "built" /\ query.op = "get_leaf_nodes" /\ query.state = "returned"
        /\ query.depth = max_depth)
    => Range(query.leaf_nodes) =
          Leaves \cup {p \in DOMAIN nodes :
                          ~nodes[p].is_leaf /\ nodes[p].depth = max_depth}

(* C4: the second build of an image yields the tree of the first: the same
   nodes with the same region, average colour and leaf flag, whatever the
   interleavings of the two builds. *)
SameTreeTwice ==
    (pc = "built" /\ builds = 2) => TreeView(nodes) = first_tree

SameTreeTwiceWitness ==
    /\ pc = "built"
    /\ builds = 2
    /\ \E p \in Leaves : nodes[p].depth > max_depth
    /\ TreeView(nodes) = first_tree

(* C5: a call of get_leaf_nodes raises exactly when the depth exceeds the
   recorded maximum depth; a call that raises returns no list; no call
   changes the tree. *)
GetLeafNodesStep ==
    (query'.op = "get_leaf_nodes" /\ query' # query)
    => /\ (query'.state = "raised") <=> (query'.depth > max_depth)
       /\ (query'.state = "returned") <=> (query'.depth <= max_depth)
       /\ query'.state = "raised" => query'.leaf_nodes = <<>>
       /\ nodes' = nodes
       /\ max_depth' = max_depth
       /\ width' = width
       /\ height' = height

DepthBoundEnforced == [][GetLeafNodesStep]_vars

DepthBoundEnforcedWitness ==
    /\ query.op = "get_leaf_nodes"
    /\ query.state = "raised"
    /\ query.depth = max_depth + 1
    /\ Internal # {}

(* C6: an image of zero width or height is rejected with an invalid-input
   error before any QuadtreeNode constructor is called. *)
ZeroDimensionRejectedFirst ==
    ((image.w = 0 \/ image.h = 0) /\ pc \in {"raised", "building", "built"})
    => (pc = "raised" /\ exc.type = "InvalidInput" /\ ctor_calls = 0)

(* C7: an invocation check_fields accepts ends without an error, whatever
   depth the built tree reached: the call of compression_start does not
   raise, and neither does create_image at a level of 1..8. *)
AcceptedInvocationSucceeds ==
    /\ cli.state # "TypeError"
    /\ (query.op = "create_image" => query.state = "saved")

(* C8: when construction has returned every node is a leaf without children
   or an unmarked node with four children, and a build that is over has all
   its child builds over. *)
EveryNodeFinalized ==
    /\ pc = "built" =>
          \A p \in DOMAIN nodes :
              \/ nodes[p].is_leaf /\ nodes[p].childrens = None
              \/ /\ ~nodes[p].is_leaf
                 /\ Len(nodes[p].childrens) = 4
                 /\ \A i \in 1..4 : nodes[p].childrens[i] \in DOMAIN nodes
    /\ \A p \in Internal :
          thr[p] = "done" => \A i \in 1..4 : thr[nodes[p].childrens[i]] = "done"

EveryNodeFinalizedWitness ==
    /\ pc = "built"
    /\ \E p \in Internal : nodes[p].depth = 1
    /\ \E p \in Leaves : nodes[p].depth = 1

(* C9: the four children of a split node are the quadrants cut at the
   midpoint of its region: they partition it, none is degenerate, and each
   has the parent's depth plus one. *)
SplitTilesParent ==
    \A p \in Internal :
        LET b == nodes[p].border_box
            k == nodes[p].childrens
            cx == nodes[k[1]].border_box[3]
            cy == nodes[k[1]].border_box[4]
        IN /\ 2 * cx = b[1] + b[3]
           /\ 2 * cy = b[2] + b[4]
           /\ nodes[k[1]].border_box = <<b[1], b[2], cx, cy>>
           /\ nodes[k[2]].border_box = <<cx, b[2], b[3], cy>>
           /\ nodes[k[3]].border_box = <<b[1], cy, cx, b[4]>>
           /\ nodes[k[4]].border_box = <<cx, cy, b[3], b[4]>>
           /\ Tiles(Range(k), b)
           /\ \A i \in 1..4 : /\ NonDegenerate(nodes[k[i]].border_box)
                              /\ nodes[k[i]].depth = nodes[p].depth + 1

SplitTilesParentWitness ==
    \E p \in Internal :
        /\ nodes[p].depth = 1
        /\ (nodes[p].border_box[3] - nodes[p].border_box[1]) % Scale # 0

(* C10: in a completed tree a node is marked leaf iff its depth is at least
   MAX_DEPTH or its error at most ERROR_THRESHOLD; such a node has no
   children, and every other node has four children whose builds are over. *)
StopRule ==
    pc = "built" =>
        \A p \in DOMAIN nodes :
            /\ nodes[p].is_leaf <=> StopsAt(nodes[p])
            /\ StopsAt(nodes[p]) => nodes[p].childrens = None
            /\ ~StopsAt(nodes[p]) =>
                  /\ Len(nodes[p].childrens) = 4
                  /\ \A i \in 1..4 : /\ nodes[p].childrens[i] \in DOMAIN nodes
                                     /\ thr[nodes[p].childrens[i]] = "done"

StopRuleWitness ==
    /\ pc = "built"
    /\ \E p \in Leaves : nodes[p].error > 0
    /\ Internal # {}
====
